---- MODULE Spec2Model ----
(***************************************************************************)
(* A model of wow-sync: the client's action state machine (StateManager), *)
(* its idle scheduler (IdleManager.start_idle_mode), its command router   *)
(* (AsyncClient.handle_server_message), and the server's client registry  *)
(* and broadcast (WowSyncServer.handle_client / send_to_all_clients).     *)
(*                                                                         *)
(* Time is the value time.time() returns, counted in whole seconds.  The  *)
(* tasks of one process are asyncio coroutines: a task runs without       *)
(* interruption from one await to the next, so every action below is the  *)
(* code between two suspension points.  A sleep of d seconds is a timer    *)
(* that runs down with the clock; the task resumes at any clock value     *)
(* once it has run out.                                                   *)
(***************************************************************************)
EXTENDS Integers, Sequences, FiniteSets, TLC

\* ------------------------------------------------------------- bounds
\* The clock stops at MaxTime.
MaxTime == 20
\* At most this many configured windows (targets).
MaxWindows == 2
\* At most this many connections are ever accepted by the server.
MaxConns == 3
\* At most this many broadcasts are started.
MaxBroadcasts == 2
\* At most this many frames are written to the stream.
MaxFrames == 2
\* A payload has at most this many bytes.
MaxPayload == 2
\* At most this many connections are ever opened by the client.
MaxOpens == 2
\* At most this many close() calls are made on one client connection.
MaxCloses == 2
\* At most this many start_idle_mode calls are made on one IdleManager.
MaxStarts == 3
\* At most this many ignored messages are kept in the history.
MaxIgnored == 2

\* ---------------------------------------------------- program constants
action_cooldown == 2
idle_timeout == 10
\* "Reconnecting in 5 seconds...": await asyncio.sleep(5)
reconnect_delay == 5
\* The window ids of the default windows.json, in file order.
WindowKeys == <<"window1", "window2", "window3", "window4", "window5">>
\* The action profiles of the default actions.json.
ActionNames ==
  {"idle_action", "f1_action", "f2_action", "f3_action", "f4_action",
   "f5_action"}
\* data.get('action', 'f1_action')
DefaultAction == "f1_action"

\* Python's None, for a value that is otherwise a string.
None == "None"
\* A time that is no time: no such call has happened.
Never == 0 - 1
\* time.time() at program start: the epoch lies further back than any timeout.
StartTime == idle_timeout

\* self.current_state: "idle" or f"active_{window_key}", as the pieces of the
\* formatted string.
StateIdle == <<"idle">>
StateActive(w) == <<"active_", w>>
\* A response without a 'state' key.
NoState == <<>>
\* No payload is being handled, no frame is being flushed, no execute_action
\* call was made.
NoMsg == [parses |-> FALSE, command |-> "-", window |-> None, action |-> None]
NoReply == [status |-> None, window |-> None, action |-> None, state |-> NoState]
NoExec == [window |-> None, action |-> None, outcome |-> None, at |-> Never]
\* self.writer before the first connection (None); the connections the
\* client opens are numbered from 1.
NoWriter == 0

\* The sleeps, in clock readings.  A task resumes at any reading once its
\* timer has run out, so the shortest duration of a jittered sleep stands for all
\* of them: a longer draw is a later resumption.
\* random.uniform(1, 2): the wait after focus and between the two idle keys.
FocusDelays == {1}
\* random.uniform(0.09, 0.15): a key hold may end within the same second.
HoldDelays == {0}
\* 8 * random.uniform(0.9, 1.1): at least 7.2 seconds, 7 readings on.
CycleDelays == {7}
\* execute_action blocks in time.sleep for delay_after_focus [1, 1.5] plus one
\* key hold [0.09, 0.15]: the clock reads 1 or 2 more when it returns.
ExecDelays == 1..2

VARIABLES
  \* the clock
  now,
  \* StateManager
  current_state, active_window, last_action_time,
  \* WindowManager.active_windows, as the list get_window_list() returns
  windows,
  \* IdleManager
  is_running, current_window_index,
  \* the idle task: where it is suspended, the seconds its sleep has left, the
  \* local window_key, and the key the idle action holds down
  ipc, sleep_left, window_key, idle_key,
  \* AsyncClient: connected, where the reader task is, the payload whose
  \* handler is in progress, the frame it wrote and is flushing, and its
  \* execute_action call
  connected, rpc, inbound, reply, executed,
  \* history: the time of the last set_active_window call, the time the state
  \* last left idle, the advances of the cursor modulo N, the targets of the
  \* last N advances, the key the idle action held when stop_idle_mode was
  \* called
  last_set_active, active_since, advances, selected, stop_key,
  \* AsyncClient.writer, as the number of the connection it writes to; the
  \* connections opened so far; the transport of self.writer: "none", "up",
  \* "eof" (the peer has closed, reads end), "reset" (lost with an error),
  \* "closed" (closed by the client, without error); the close() calls made
  \* on each connection
  writer, opened, transport, closes,
  \* the seconds the reconnect sleep has left; history: the seconds slept in
  \* the reconnect sleep, the connections that have suffered a read, decode
  \* or write failure
  retry_left, slept, dead,
  \* what the last send_message call returned to a caller that keeps it,
  \* and the send_message calls that have written and not yet flushed
  send_result, cflush,
  \* WowSyncServer.clients, as the connections' ids in list order; per
  \* connection, its transport and where its handle_client task is
  \* and the close() calls made on its writer; history: what removed it
  \* from the registry ("reader", "broadcast", or "none")
  clients, link, hpc, wclosed, removed_by,
  \* the broadcasting task (command_handler in send_to_all_clients): where it
  \* is, the list iterator's index, the connection being flushed, the local
  \* disconnected_clients, the broadcasts started
  bpc, bidx, bcur, disconnected_clients, broadcasts,
  \* history: the registry when the last broadcast started, the frames it wrote
  \* to each connection, the connections whose write has failed in a broadcast
  \* and, per connection, the frame writes that have not finished their flush
  bstart, bwritten, write_failed, sflush,
  \* one direction of one connection: the bytes written and not yet arrived,
  \* the bytes in the StreamReader's buffer, the writing peer ("open", "closed",
  \* and "eof" once the reader has been fed the end of the stream), where the
  \* read loop is, its local message_length; history: the payloads framed and
  \* the payloads decoded
  wire, stream, peer, fpc, message_length, sent, received,
  \* IdleManager called any number of times: per start_idle_mode call, where
  \* its coroutine is; history: per call, the number of loops that had been
  \* entered when it last passed the test of `while self.is_running`
  loops, seen,
  \* history: the messages handle_server_message has been given and has
  \* taken no branch on
  ignored

smVars == <<current_state, active_window, last_action_time>>
idleVars == <<is_running, current_window_index, ipc, sleep_left, window_key, idle_key>>
routerVars == <<connected, rpc, inbound, reply, executed>>
histVars == <<last_set_active, active_since, advances, selected, stop_key>>
linkVars == <<writer, opened, transport, closes, dead>>
retryVars == <<retry_left, slept>>
sendVars == <<send_result, cflush>>
connVars == <<linkVars, retryVars, sendVars>>
clientVars == <<now, smVars, windows, idleVars, routerVars, histVars, connVars>>
registryVars == <<clients, link, hpc, wclosed, removed_by>>
broadcastVars == <<bpc, bidx, bcur, disconnected_clients, broadcasts>>
bhistVars == <<bstart, bwritten, write_failed, sflush>>
serverVars == <<registryVars, broadcastVars, bhistVars>>
wireVars == <<wire, stream, peer, fpc, message_length, sent, received>>
loopVars == <<loops, seen>>
driverVars == <<loopVars, ignored>>
vars == <<clientVars, serverVars, wireVars, driverVars>>

\* ------------------------------------------------------- StateManager

\* The cooldown compared strictly.
can_execute_action_strict == now - last_action_time > action_cooldown

can_execute_action == now - last_action_time >= action_cooldown

\* set_active_window interrupted after its first assignment.
set_active_window_partial(w) ==
  /\ current_state' = StateActive(w)
  /\ UNCHANGED active_window
  /\ last_action_time' = now

set_active_window(w) ==
  /\ current_state' = StateActive(w)
  /\ active_window' = w
  /\ last_action_time' = now

set_idle ==
  /\ current_state' = StateIdle
  /\ active_window' = None

is_idle == current_state = StateIdle

\* The timeout check without the idle test.
should_return_to_idle_unguarded == now - last_action_time >= idle_timeout

\* The timeout compared strictly.
should_return_to_idle_strict ==
  IF is_idle THEN FALSE ELSE now - last_action_time > idle_timeout

should_return_to_idle ==
  IF is_idle THEN FALSE ELSE now - last_action_time >= idle_timeout

get_current_state == current_state

\* ------------------------------------------------------- WindowManager

get_window_list == windows

Range(s) == {s[i] : i \in 1..Len(s)}

Max(a, b) == IF a >= b THEN a ELSE b

Min(a, b) == IF a <= b THEN a ELSE b

\* focus_window(window_key): False for an unknown window or when the mouse
\* call raises (mouse_ok is what the mouse library does this time).
focus_window(w, mouse_ok) == w \in Range(windows) /\ mouse_ok

\* --------------------------------------------------------- the clock

\* The idle task is the first the event loop runs: its start reads StartTime.
Tick ==
  /\ ipc # "not_started"
  /\ now < MaxTime
  /\ now' = now + 1
  /\ sleep_left' = Max(sleep_left - 1, 0)
  /\ retry_left' = Max(retry_left - 1, 0)
  /\ slept' = IF rpc = "sleeping" THEN Min(slept + 1, reconnect_delay) ELSE slept
  /\ UNCHANGED <<smVars, windows, is_running, current_window_index, ipc,
                 window_key, idle_key, routerVars, histVars>>
  /\ UNCHANGED <<linkVars, sendVars, serverVars, wireVars, driverVars>>

\* ------------------------------------------------------ initial state

\* AsyncClient after __init__: no connection.
LinkInit ==
  /\ connected = FALSE
  /\ writer = NoWriter
  /\ opened = 0
  /\ transport = "none"
  /\ closes = [k \in 1..MaxOpens |-> 0]
  /\ dead = {}

\* The client's other objects after WowSyncClient.__init__, with n
\* configured windows.
AppInit(n) ==
  /\ now = StartTime
  /\ current_state = StateIdle
  /\ active_window = None
  /\ last_action_time = 0
  /\ windows = SubSeq(WindowKeys, 1, n)
  /\ is_running = FALSE
  /\ current_window_index = 0
  /\ ipc = "not_started"
  /\ sleep_left = 0
  /\ window_key = None
  /\ idle_key = None
  /\ rpc = "connecting"
  /\ retry_left = 0
  /\ slept = 0
  /\ send_result = None
  /\ cflush = 0
  /\ inbound = NoMsg
  /\ reply = NoReply
  /\ executed = NoExec
  /\ last_set_active = Never
  /\ active_since = Never
  /\ advances = 0
  /\ selected = <<>>
  /\ stop_key = None

\* The client after WowSyncClient.__init__, with n configured windows.
ClientInit(n) == AppInit(n) /\ LinkInit

\* The connection ids, in the order the server accepts them.
Conns == 1..MaxConns

\* The server after WowSyncServer.__init__: no connection yet.
ServerInit ==
  /\ clients = <<>>
  /\ link = [c \in Conns |-> "unconnected"]
  /\ hpc = [c \in Conns |-> "none"]
  /\ wclosed = [c \in Conns |-> 0]
  /\ removed_by = [c \in Conns |-> "none"]
  /\ bpc = "idle"
  /\ bidx = 0
  /\ bcur = 0
  /\ disconnected_clients = <<>>
  /\ broadcasts = 0
  /\ bstart = {}
  /\ bwritten = [c \in Conns |-> 0]
  /\ write_failed = {}
  /\ sflush = [c \in Conns |-> 0]

\* A connection just opened: nothing written, the read loop at its first
\* readexactly(4).
WireInit ==
  /\ wire = <<>>
  /\ stream = <<>>
  /\ peer = "open"
  /\ fpc = "length"
  /\ message_length = 0
  /\ sent = <<>>
  /\ received = <<>>

\* The start_idle_mode calls that can be made.
Calls == 1..MaxStarts

\* No start_idle_mode call made yet.
LoopInit ==
  /\ loops = [k \in Calls |-> "not_called"]
  /\ seen = [k \in Calls |-> 0]
  /\ ignored = <<>>

InitClient ==
  (\E n \in 0..MaxWindows : ClientInit(n)) /\ ServerInit /\ WireInit /\ LoopInit

InitServer == ClientInit(0) /\ ServerInit /\ WireInit /\ LoopInit

\* -------------------------------------------------------- IdleManager

\* The cursor wrapped one past the count.
NextIndexOff(c, n) == (c + 1) % (n + 1)

\* (self.current_window_index + 1) % len(windows)
NextIndex(c, n) == (c + 1) % n

\* The last n elements of s.
LastN(s, n) == IF Len(s) <= n THEN s ELSE SubSeq(s, Len(s) - n + 1, Len(s))

\* "Move to next window": the cursor advances past target wk.
AdvanceCursor(wk) ==
  /\ current_window_index' = NextIndex(current_window_index, Len(windows))
  /\ advances' = (advances + 1) % Len(windows)
  /\ selected' = LastN(Append(selected, wk), Len(windows))

\* "Wait before next cycle": await asyncio.sleep(cycle_delay).
CycleSleep(cd) ==
  /\ ipc' = "cycle_sleep"
  /\ sleep_left' = cd

\* "Check if we should return to idle from active state".
ReturnToIdleCheck ==
  IF should_return_to_idle
    THEN set_idle /\ active_since' = Never
    ELSE UNCHANGED <<current_state, active_window, active_since>>

\* The pass with the cursor left alone when the focus fails.
IterationBodyStuck(mouse_ok, fd, cd) ==
  IF is_idle' /\ Len(get_window_list) > 0
    THEN LET wk == windows[(current_window_index % Len(windows)) + 1] IN
         IF focus_window(wk, mouse_ok)
           THEN /\ window_key' = wk
                /\ ipc' = "focus_sleep"
                /\ sleep_left' = fd
                /\ UNCHANGED <<current_window_index, advances, selected>>
           ELSE /\ CycleSleep(cd)
                /\ window_key' = wk
                /\ UNCHANGED <<current_window_index, advances, selected>>
    ELSE /\ CycleSleep(cd)
         /\ UNCHANGED <<window_key, current_window_index, advances, selected>>

\* One pass of the while loop from the state check to its first await: the
\* target is selected and focused; a focus that succeeds suspends the task in
\* the wait after focus, anything else ends the pass in the cycle sleep.
IterationBody(mouse_ok, fd, cd) ==
  IF is_idle' /\ Len(get_window_list) > 0
    THEN LET wk == windows[(current_window_index % Len(windows)) + 1] IN
         IF focus_window(wk, mouse_ok)
           THEN /\ window_key' = wk
                /\ ipc' = "focus_sleep"
                /\ sleep_left' = fd
                /\ UNCHANGED <<current_window_index, advances, selected>>
           ELSE /\ AdvanceCursor(wk)
                /\ CycleSleep(cd)
                /\ window_key' = wk
    ELSE /\ CycleSleep(cd)
         /\ UNCHANGED <<window_key, current_window_index, advances, selected>>

\* start_idle_mode up to its first await.
IdleStart(mouse_ok, fd, cd) ==
  /\ ipc = "not_started"
  /\ ~is_running
  /\ is_running' = TRUE
  /\ set_idle
  /\ active_since' = Never
  /\ IterationBody(mouse_ok, fd, cd)
  /\ UNCHANGED <<now, last_action_time, windows, idle_key, routerVars,
                 last_set_active, stop_key>>
  /\ UNCHANGED <<connVars, serverVars, wireVars, driverVars>>

\* The cycle sleep is over and is_running holds: the next pass of the loop.
IdleLoopTop(mouse_ok, fd, cd) ==
  /\ ipc = "cycle_sleep"
  /\ sleep_left = 0
  /\ is_running
  /\ ReturnToIdleCheck
  /\ IterationBody(mouse_ok, fd, cd)
  /\ UNCHANGED <<now, last_action_time, windows, is_running, idle_key,
                 routerVars, last_set_active, stop_key>>
  /\ UNCHANGED <<connVars, serverVars, wireVars, driverVars>>

\* The cycle sleep is over and is_running is false: the loop ends.
IdleLoopExit ==
  /\ ipc = "cycle_sleep"
  /\ sleep_left = 0
  /\ ~is_running
  /\ ipc' = "exited"
  /\ UNCHANGED <<now, smVars, windows, is_running, current_window_index,
                 sleep_left, window_key, idle_key, routerVars, histVars>>
  /\ UNCHANGED <<connVars, serverVars, wireVars, driverVars>>

\* The wait after focus is over: "if still idle", _perform_idle_action starts
\* and presses space (press_ok: the keyboard call does not raise); else, or
\* when the press raises, the pass ends.
IdleAfterFocus(press_ok, hd, cd) ==
  /\ ipc = "focus_sleep"
  /\ sleep_left = 0
  /\ IF is_idle /\ press_ok
       THEN /\ idle_key' = "space"
            /\ ipc' = "hold_space"
            /\ sleep_left' = hd
            /\ UNCHANGED <<current_window_index, advances, selected>>
       ELSE /\ AdvanceCursor(window_key)
            /\ CycleSleep(cd)
            /\ UNCHANGED idle_key
  /\ UNCHANGED <<now, smVars, windows, is_running, window_key, routerVars,
                 last_set_active, active_since, stop_key>>
  /\ UNCHANGED <<connVars, serverVars, wireVars, driverVars>>

\* The space hold with the stop flag tested before the release.
IdleReleaseSpaceStop(bd) ==
  /\ ipc = "hold_space"
  /\ sleep_left = 0
  /\ IF is_running
       THEN idle_key' = None /\ ipc' = "between" /\ sleep_left' = bd
       ELSE ipc' = "exited" /\ UNCHANGED <<idle_key, sleep_left>>
  /\ UNCHANGED <<now, smVars, windows, is_running, current_window_index,
                 window_key, routerVars, histVars>>
  /\ UNCHANGED <<connVars, serverVars, wireVars, driverVars>>

\* The space hold is over: release space, then wait between the keys.
IdleReleaseSpace(bd) ==
  /\ ipc = "hold_space"
  /\ sleep_left = 0
  /\ idle_key' = None
  /\ ipc' = "between"
  /\ sleep_left' = bd
  /\ UNCHANGED <<now, smVars, windows, is_running, current_window_index,
                 window_key, routerVars, histVars>>
  /\ UNCHANGED <<connVars, serverVars, wireVars, driverVars>>

\* The wait between the keys is over: press q.
IdlePressQ(press_ok, hd, cd) ==
  /\ ipc = "between"
  /\ sleep_left = 0
  /\ IF press_ok
       THEN /\ idle_key' = "q"
            /\ ipc' = "hold_q"
            /\ sleep_left' = hd
            /\ UNCHANGED <<current_window_index, advances, selected>>
       ELSE /\ AdvanceCursor(window_key)
            /\ CycleSleep(cd)
            /\ UNCHANGED idle_key
  /\ UNCHANGED <<now, smVars, windows, is_running, window_key, routerVars,
                 last_set_active, active_since, stop_key>>
  /\ UNCHANGED <<connVars, serverVars, wireVars, driverVars>>

\* The q hold is over: release q; the pass ends.
IdleReleaseQ(cd) ==
  /\ ipc = "hold_q"
  /\ sleep_left = 0
  /\ idle_key' = None
  /\ AdvanceCursor(window_key)
  /\ CycleSleep(cd)
  /\ UNCHANGED <<now, smVars, windows, is_running, window_key, routerVars,
                 last_set_active, active_since, stop_key>>
  /\ UNCHANGED <<connVars, serverVars, wireVars, driverVars>>

\* stop_idle_mode, called at any time once the loop runs.
StopIdleMode ==
  /\ is_running
  /\ is_running' = FALSE
  /\ stop_key' = idle_key
  /\ UNCHANGED <<now, smVars, windows, current_window_index, ipc, sleep_left,
                 window_key, idle_key, routerVars, last_set_active,
                 active_since, advances, selected>>
  /\ UNCHANGED <<connVars, serverVars, wireVars, driverVars>>

\* -------------------------------------------------------- AsyncClient

\* A value Python's `if x` takes as true.
Truthy(x) == x # None /\ x # ""

\* A payload json.loads rejects (or that is no object).
BadPayload == [parses |-> FALSE, command |-> None, window |-> None, action |-> None]

\* The inbound payloads: the window and the action may be missing (None).
Messages ==
  {BadPayload} \cup
  [parses : {TRUE}, command : {"execute", "status"},
   window : {None, ""} \cup {WindowKeys[i] : i \in 1..MaxWindows},
   action : {None, "bogus_action"}]

\* data.get('action', 'f1_action')
ActionOf(m) == IF m.action = None THEN DefaultAction ELSE m.action

\* The test with the window left out.
IsExecuteAnyWindow(m) == m.parses /\ m.command = "execute"

\* command == 'execute' and window
IsExecute(m) == m.parses /\ m.command = "execute" /\ Truthy(m.window)

\* What execute_action(w, a) comes to: env is what the mouse and keyboard
\* libraries do this time.
ExecOutcome(w, a, env) ==
  IF ~focus_window(w, env # "focus_err") THEN "focus_failed"
  ELSE IF a \notin ActionNames THEN "unknown_action"
  ELSE IF env = "inject_err" THEN "inject_failed"
  ELSE "ok"

\* execute_action reporting every failure past the focus as a success.
ExecSuccessLoose(out) == out # "focus_failed"

\* execute_action returns True only from the end of its try block.
ExecSuccess(out) == out = "ok"

\* The seconds execute_action blocks the event loop in time.sleep.
ExecDuration(out, d) == IF out \in {"ok", "inject_failed"} THEN d ELSE 0

\* 'success' if success else 'error'
ResponseStatus(success) == IF success THEN "success" ELSE "error"

\* send_message writing although the client is not connected.
send_message_unguarded(msg) ==
  /\ reply' = msg
  /\ rpc' = "draining"
  /\ cflush' = cflush + 1
  /\ UNCHANGED send_result

\* send_message up to its await of drain(): when not connected it returns
\* False and nothing is written; else the frame is written to self.writer
\* and the flush is awaited.
send_message(msg) ==
  IF ~connected \/ writer = NoWriter
    THEN /\ send_result' = "False"
         /\ UNCHANGED <<rpc, reply, cflush>>
    ELSE /\ reply' = msg
         /\ rpc' = "draining"
         /\ cflush' = cflush + 1
         /\ UNCHANGED send_result

\* The cooldown branch restarting the cooldown.
ReplyCooldownRefresh(w, a) ==
  /\ send_message([status |-> "cooldown", window |-> w, action |-> a,
                   state |-> NoState])
  /\ last_action_time' = now
  /\ UNCHANGED <<now, sleep_left, current_state, active_window, executed,
                 last_set_active, active_since>>

\* handle_server_message, cooldown branch.
ReplyCooldown(w, a) ==
  /\ send_message([status |-> "cooldown", window |-> w, action |-> a,
                   state |-> NoState])
  /\ UNCHANGED <<now, sleep_left, smVars, executed, last_set_active,
                 active_since>>

\* The execute branch with the response's state read before the transition.
ExecuteAndReplyStale(w, a, env, d) ==
  LET out == ExecOutcome(w, a, env) IN
  /\ now + ExecDuration(out, d) <= MaxTime
  /\ set_active_window(w)
  /\ now' = now + ExecDuration(out, d)
  /\ sleep_left' = Max(sleep_left - ExecDuration(out, d), 0)
  /\ executed' = [window |-> w, action |-> a, outcome |-> out, at |-> now]
  /\ send_message([status |-> ResponseStatus(ExecSuccess(out)), window |-> w,
                   action |-> a, state |-> get_current_state])
  /\ last_set_active' = now
  /\ active_since' = IF is_idle THEN now ELSE active_since

\* handle_server_message, execute branch: the transition, the blocking
\* execute_action, the response with the state read after both.
ExecuteAndReply(w, a, env, d) ==
  LET out == ExecOutcome(w, a, env) IN
  /\ now + ExecDuration(out, d) <= MaxTime
  /\ set_active_window(w)
  /\ now' = now + ExecDuration(out, d)
  /\ sleep_left' = Max(sleep_left - ExecDuration(out, d), 0)
  /\ executed' = [window |-> w, action |-> a, outcome |-> out, at |-> now]
  /\ send_message([status |-> ResponseStatus(ExecSuccess(out)), window |-> w,
                   action |-> a, state |-> get_current_state'])
  /\ last_set_active' = now
  /\ active_since' = IF is_idle THEN now ELSE active_since

\* A frame is read by the read loop, which awaits handle_server_message.
FrameArrives == connected /\ rpc = "reading"

\* handle_server_message on a payload that is no execute command with a
\* window: nothing is done.
IgnoreMessage(m) ==
  /\ FrameArrives
  /\ ~IsExecute(m)
  /\ UNCHANGED <<now, smVars, windows, idleVars, routerVars, histVars>>
  /\ UNCHANGED <<connVars, serverVars, wireVars, loopVars>>

\* The same with no history kept.
HandleOther(m) == IgnoreMessage(m) /\ UNCHANGED ignored

\* The same with the message kept in the history.
HandleOtherNoted(m) ==
  /\ Len(ignored) < MaxIgnored
  /\ IgnoreMessage(m)
  /\ ignored' = Append(ignored, m)

\* handle_server_message on an execute command during the cooldown, up to the
\* await of the flush.
HandleCooldown(m) ==
  /\ FrameArrives
  /\ IsExecute(m)
  /\ ~can_execute_action
  /\ inbound' = m
  /\ ReplyCooldown(m.window, ActionOf(m))
  /\ UNCHANGED <<windows, is_running, current_window_index, ipc, window_key,
                 idle_key, connected, advances, selected, stop_key>>
  /\ UNCHANGED <<linkVars, retryVars, serverVars, wireVars, driverVars>>

\* handle_server_message on an execute command past the cooldown, up to the
\* await of the flush.
HandleExecute(m, env, d) ==
  /\ FrameArrives
  /\ IsExecute(m)
  /\ can_execute_action
  /\ inbound' = m
  /\ ExecuteAndReply(m.window, ActionOf(m), env, d)
  /\ UNCHANGED <<windows, is_running, current_window_index, ipc, window_key,
                 idle_key, connected, advances, selected, stop_key>>
  /\ UNCHANGED <<linkVars, retryVars, serverVars, wireVars, driverVars>>

\* drain() returns (ok) or raises, and send_message ends: a raise marks the
\* client not connected.  drain() raises when the transport has been lost,
\* which on a connection the client has not closed is a loss with an error.
drain(ok) ==
  /\ connected' = (connected /\ ok)
  /\ cflush' = cflush - 1
  /\ transport' = IF ok THEN transport ELSE "reset"
  /\ dead' = IF ok THEN dead ELSE dead \cup {writer}
  /\ UNCHANGED <<writer, opened, closes>>

\* The flush of the handler's response ends; handle_server_message drops
\* the value send_message returns and the read loop tests self.connected:
\* it reads on, or ends, and connect_to_server opens the next connection.
DrainDone(ok) ==
  /\ rpc = "draining"
  /\ rpc' = IF connected /\ ok THEN "reading" ELSE "connecting"
  /\ inbound' = NoMsg
  /\ reply' = NoReply
  /\ executed' = NoExec
  /\ drain(ok)
  /\ send_result' = None
  /\ UNCHANGED <<now, smVars, windows, idleVars, histVars, retryVars>>
  /\ UNCHANGED <<serverVars, wireVars, driverVars>>

\* open_connection succeeding with self.writer left on the old connection.
ReconnectStale ==
  /\ ipc # "not_started"
  /\ rpc = "connecting"
  /\ opened < MaxOpens
  /\ opened' = opened + 1
  /\ writer' = IF writer = NoWriter THEN opened + 1 ELSE writer
  /\ transport' = "up"
  /\ connected' = TRUE
  /\ rpc' = "reading"
  /\ UNCHANGED <<now, smVars, windows, idleVars, inbound, reply, executed,
                 histVars, closes, dead, retryVars, sendVars>>
  /\ UNCHANGED <<serverVars, wireVars, driverVars>>

\* open_connection succeeds: self.reader and self.writer are the new
\* connection's, connected is set and the read loop starts.
\* connect_to_server is the second task the event loop starts.
Reconnect ==
  /\ ipc # "not_started"
  /\ rpc = "connecting"
  /\ opened < MaxOpens
  /\ opened' = opened + 1
  /\ writer' = opened + 1
  /\ transport' = "up"
  /\ connected' = TRUE
  /\ rpc' = "reading"
  /\ UNCHANGED <<now, smVars, windows, idleVars, inbound, reply, executed,
                 histVars, closes, dead, retryVars, sendVars>>
  /\ UNCHANGED <<serverVars, wireVars, driverVars>>

\* The ways the read loop's try block fails: the stream ends before a whole
\* frame (IncompleteReadError), the transport is lost with an error, the
\* payload is no UTF-8.
ReadFailures == {"eof", "reset", "decode"}

\* A read or the decoding raises inside the read loop: the except clause
\* breaks out of the loop, the outer try block ends without an exception and
\* the while True loop goes on to open_connection.
ReadFails(kind) ==
  /\ connected
  /\ rpc = "reading"
  /\ rpc' = "connecting"
  /\ transport' = IF kind = "decode" THEN transport ELSE kind
  /\ dead' = dead \cup {writer}
  /\ UNCHANGED <<now, smVars, windows, idleVars, connected, inbound, reply,
                 executed, histVars, writer, opened, closes, retryVars,
                 sendVars>>
  /\ UNCHANGED <<serverVars, wireVars, driverVars>>

\* writer.close() on the transport of self.writer.
close(t) == IF t \in {"up", "eof"} THEN "closed" ELSE t

\* open_connection raises: the outer except clause marks the client not
\* connected and closes self.writer if there is one, which is the writer of
\* the last connection opened; without one it goes to the reconnect sleep.
ConnectFails ==
  /\ ipc # "not_started"
  /\ rpc = "connecting"
  /\ connected' = FALSE
  /\ IF writer # NoWriter
       THEN /\ closes[writer] < MaxCloses
            /\ closes' = [closes EXCEPT ![writer] = @ + 1]
            /\ transport' = close(transport)
            /\ rpc' = "wait_closed"
            /\ UNCHANGED retryVars
       ELSE /\ rpc' = "sleeping"
            /\ retry_left' = reconnect_delay
            /\ slept' = 0
            /\ UNCHANGED <<closes, transport>>
  /\ UNCHANGED <<now, smVars, windows, idleVars, inbound, reply, executed,
                 histVars, writer, opened, dead, sendVars>>
  /\ UNCHANGED <<serverVars, wireVars, driverVars>>

\* await self.writer.wait_closed() ends: it returns when the transport was
\* closed without error, and the reconnect sleep starts; it raises the error
\* the transport was lost with, inside the except clause, so the exception
\* leaves the while True loop and connect_to_server ends.
WaitClosedDone ==
  /\ rpc = "wait_closed"
  /\ IF transport = "reset"
       THEN /\ rpc' = "terminated"
            /\ UNCHANGED retryVars
       ELSE /\ rpc' = "sleeping"
            /\ retry_left' = reconnect_delay
            /\ slept' = 0
  /\ UNCHANGED <<now, smVars, windows, idleVars, connected, inbound, reply,
                 executed, histVars, linkVars, sendVars>>
  /\ UNCHANGED <<serverVars, wireVars, driverVars>>

\* The reconnect sleep is over: the while True loop calls open_connection.
RetryWake ==
  /\ rpc = "sleeping"
  /\ retry_left = 0
  /\ rpc' = "connecting"
  /\ UNCHANGED <<now, smVars, windows, idleVars, connected, inbound, reply,
                 executed, histVars, connVars>>
  /\ UNCHANGED <<serverVars, wireVars, driverVars>>

\* ------------------------------------------------------------ claims

\* The state is Active: it left idle and was not set idle since.
IsActive == active_since # Never

\* The step in which handle_server_message takes up an execute command.
CommandStep == FrameArrives /\ inbound' # NoMsg

\* The step in which the idle loop starts a pass with its timeout check.
PollStep ==
  ipc = "cycle_sleep" /\ is_running /\ sleep_left = 0 /\ sleep_left' > 0

\* C1: can_execute_action() is false exactly when less than action_cooldown
\* has passed since the most recent set_active_window call, and true
\* otherwise, also before any such call; set_idle calls in between do not
\* matter.
C1_Cooldown ==
  can_execute_action <=>
    ~(last_set_active # Never /\ now - last_set_active < action_cooldown)

\* set_idle was called inside the cooldown window and the result is false.
C1_Witness ==
  /\ last_set_active # Never
  /\ now - last_set_active < action_cooldown
  /\ is_idle
  /\ ~can_execute_action

\* C2: an execute command that arrives during the cooldown is answered with
\* status cooldown and the command's window and action; no action is
\* executed and current_state, active_window, last_action_time stay as they
\* are.
C2_CooldownReply ==
  [][(CommandStep /\ ~can_execute_action) =>
       /\ reply' = [status |-> "cooldown", window |-> inbound'.window,
                    action |-> ActionOf(inbound'), state |-> NoState]
       /\ executed' = NoExec
       /\ UNCHANGED <<current_state, active_window, last_action_time>>]_vars

\* A cooldown response is being flushed.
C2_Witness ==
  /\ rpc = "draining"
  /\ reply.status = "cooldown"
  /\ inbound.window = "window2"
  /\ inbound.action = "bogus_action"

\* C3: an execute command for W past the cooldown makes the state
\* Active(W) with last_action_time the time before the action runs; the
\* response carries success or error by the outcome, the command's window
\* and action, and the state active_W.
C3_ExecuteReply ==
  [][(CommandStep /\ can_execute_action) =>
       LET w == inbound'.window IN
       /\ current_state' = StateActive(w)
       /\ active_window' = w
       /\ last_action_time' = now
       /\ executed'.window = w
       /\ executed'.action = ActionOf(inbound')
       /\ executed'.at = last_action_time'
       /\ reply' = [status |-> IF executed'.outcome = "ok" THEN "success"
                                                            ELSE "error",
                    window |-> w, action |-> ActionOf(inbound'),
                    state |-> StateActive(w)]]_vars

\* A success response is being flushed after an action that took time.
C3_Witness ==
  /\ rpc = "draining"
  /\ executed.outcome = "ok"
  /\ reply.status = "success"
  /\ reply.state = StateActive("window2")
  /\ executed.at < now

\* C4: when the action of an accepted execute command fails, the response
\* has status error, the state is Active(target) and last_action_time is
\* the time of the attempt, so that the cooldown holds from the attempt.
C4_FailureKeepsTransition ==
  [][(CommandStep /\ can_execute_action /\ executed'.outcome # "ok") =>
       /\ reply'.status = "error"
       /\ current_state' = StateActive(inbound'.window)
       /\ last_action_time' = now
       /\ (now' - now < action_cooldown => ~can_execute_action')]_vars

\* An error response after a failed injection is being flushed, inside the
\* cooldown window of the attempt.
C4_Witness ==
  /\ rpc = "draining"
  /\ executed.outcome = "inject_failed"
  /\ reply.status = "error"
  /\ ~can_execute_action

\* C5: should_return_to_idle() is true iff the state is Active and at least
\* idle_timeout has passed since last_action_time; it is false while Idle.
C5_IdleReturn ==
  /\ should_return_to_idle <=>
       (IsActive /\ now - last_action_time >= idle_timeout)
  /\ ~IsActive => ~should_return_to_idle

\* The state is Active and timed out.
C5_Witness ==
  /\ IsActive
  /\ now - last_action_time >= idle_timeout
  /\ should_return_to_idle

\* C6, as claimed: once idle_timeout has passed since the state became
\* Active, the idle loop's timeout check leaves it Idle, whatever commands
\* arrived in between.
C6_Unconditional ==
  [][(PollStep /\ IsActive /\ now - active_since >= idle_timeout) =>
       is_idle']_vars

\* C6, amended: the idle loop's timeout check leaves the state Idle exactly
\* when it was Idle or at least idle_timeout has passed since the most
\* recent accepted execute command.
C6_RevertsAfterLastCommand ==
  [][PollStep =>
       (is_idle' <=> (~IsActive \/ now - last_set_active >= idle_timeout))]_vars

\* The idle loop has set an Active state back to Idle.
C6_Witness ==
  /\ is_idle
  /\ last_set_active # Never
  /\ now - last_set_active >= idle_timeout
  /\ ipc = "focus_sleep"

\* C7: no key-down of the idle action is issued while the state is Active.
C7_IdleKeysOnlyWhenIdle ==
  [][(idle_key' # idle_key /\ idle_key' # None) => is_idle]_vars

\* C8: a key the idle action holds is only ever inside its hold, which ends
\* with the key-up: the loop never ends with a key held, whenever
\* stop_idle_mode was called.
C8_StopBetweenPairs ==
  /\ idle_key # None => ipc \in {"hold_space", "hold_q"}
  /\ ipc = "exited" => idle_key = None

\* stop_idle_mode was called during a key hold and the loop has ended.
C8_Witness ==
  /\ stop_key = "space"
  /\ ipc = "exited"
  /\ idle_key = None

\* C9: with N > 0 targets the cursor is in 0..N-1 and equals the number of
\* advances modulo N, so it is back at 0 after exactly N advances; the
\* targets of N consecutive advances are all N targets, each once.
C9_CursorCycle ==
  Len(windows) > 0 =>
    /\ current_window_index \in 0..(Len(windows) - 1)
    /\ current_window_index = advances
    /\ Len(selected) = Len(windows) => Range(selected) = Range(windows)
    /\ \A i \in 1..Len(selected) : \A j \in 1..Len(selected) :
         selected[i] = selected[j] => i = j

\* Two targets, two advances, the cursor back at 0.
C9_Witness ==
  /\ Len(windows) = 2
  /\ Len(selected) = 2
  /\ current_window_index = 0

\* C12: a step in which a read or the decoding fails while the client reads
\* (the read loop ends and the next connect attempt is up) leaves the
\* connected flag false and has closed the failed connection's writer.
C12_ReadFailureDisconnects ==
  [][(rpc = "reading" /\ rpc' = "connecting")
       => (~connected' /\ closes'[writer] = closes[writer] + 1)]_vars

\* C13: every step that brings the supervisor to open_connection again comes
\* out of the reconnect sleep, after reconnect_delay seconds of it.
C13_WaitBeforeRetry ==
  [][(rpc # "connecting" /\ rpc' = "connecting")
       => (rpc = "sleeping" /\ slept >= reconnect_delay)]_vars

\* C14: connect_to_server never ends.
C14_SupervisorAlive == rpc # "terminated"

\* C15: no connection is closed twice, and a connection that has been torn
\* down (the client has replaced it by a newer one; the server's reader has
\* ended) has been closed once.
C15_CloseOnce ==
  /\ \A k \in 1..MaxOpens :
       /\ closes[k] <= 1
       /\ (k < writer => closes[k] = 1)
  /\ \A c \in Conns :
       /\ wclosed[c] <= 1
       /\ (hpc[c] = "closed" => wclosed[c] = 1)

\* The server's half of C15.
ServerCloseOnce ==
  \A c \in Conns : wclosed[c] <= 1 /\ (hpc[c] = "closed" => wclosed[c] = 1)

\* The two failures of the client's half of C15 apart.
ClientNeverClosedTwice == \A k \in 1..MaxOpens : closes[k] <= 1
ClientReplacedIsClosed == \A k \in 1..MaxOpens : k < writer => closes[k] >= 1

\* A step in which send_message is called: the caller was not in a flush and
\* holds no result, and the call has returned or awaits the flush.
SendCalled ==
  /\ rpc # "draining"
  /\ send_result = None
  /\ (send_result' # None \/ rpc' = "draining")

\* A step in which the flush of a send_message fails: the transport is lost.
SendFailed == rpc = "draining" /\ transport = "up" /\ transport' = "reset"

\* C16: send_message called while the client is not connected returns False
\* in the step of the call (it awaits nothing) and writes no frame to any
\* connection; a send_message whose flush fails returns False and leaves the
\* client not connected.
C16_SendNotConnected ==
  [][/\ (SendCalled /\ ~connected)
          => /\ send_result' = "False"
             /\ rpc' = rpc
             /\ cflush' = cflush
             /\ reply' = reply
             /\ UNCHANGED linkVars
     /\ SendFailed => (send_result' = "False" /\ ~connected')]_vars

\* send_message has returned False to a caller of a client that never had a
\* connection.
C16_Witness ==
  /\ writer = NoWriter
  /\ ~connected
  /\ send_result = "False"
  /\ cflush = 0

\* C21: in every state a task can resume in, the fields of the state
\* machine agree: idle exactly with no active window; active_W exactly with
\* active window W, and then last_action_time is the time set_active_window
\* was last called.
C21_ConsistentState ==
  /\ (current_state = StateIdle) = (active_window = None)
  /\ \A w \in Range(WindowKeys) :
       /\ (current_state = StateActive(w)) = (active_window = w)
       /\ current_state = StateActive(w) => last_action_time = last_set_active
  /\ current_state \in {StateIdle} \cup {StateActive(w) : w \in Range(WindowKeys)}

\* The state is Active while the idle task is suspended inside its idle
\* action and the router is suspended in the flush of its response.
C21_Witness ==
  /\ current_state = StateActive("window1")
  /\ ipc = "between"
  /\ rpc = "draining"

\* A step that ends a pass of the idle loop: the cycle sleep starts.
PassEnds ==
  /\ ipc' = "cycle_sleep"
  /\ (ipc # "cycle_sleep" \/ (sleep_left = 0 /\ sleep_left' > 0))

\* The pass that ends found the state Idle: it went on past the state test
\* in an earlier step, or this step is the whole pass and leaves the state
\* Idle.
PassFoundIdle ==
  IF ipc \in {"not_started", "cycle_sleep"} THEN is_idle' ELSE TRUE

\* C22: a pass of the idle loop that found the state Idle and N > 0 targets
\* ends with the cursor one further modulo N, whatever became of the idle
\* action; a pass that found the state Active, or no target, ends with the
\* cursor where it was; no other step moves the cursor.
C22_CursorAdvance ==
  [][IF PassEnds /\ PassFoundIdle /\ Len(windows) > 0
       THEN current_window_index' = (current_window_index + 1) % Len(windows)
       ELSE current_window_index' = current_window_index]_vars

\* The first pass has just ended without the idle action completed, the
\* state is Active, and the cursor has advanced.
C22_Witness ==
  /\ ipc = "cycle_sleep"
  /\ sleep_left \in CycleDelays
  /\ now > StartTime
  /\ now < StartTime + 3
  /\ ~is_idle
  /\ Len(windows) = 2
  /\ current_window_index = 1

\* A pass has ended that found the state Active: the cursor is where the
\* first pass left it.
C22_ActiveCase ==
  /\ ipc = "cycle_sleep"
  /\ sleep_left \in CycleDelays
  /\ now >= StartTime + 7
  /\ ~is_idle
  /\ Len(windows) = 2
  /\ advances = 1

\* A step in which execute_action focuses the commanded window and goes on
\* to its keys.
CommandedActionStarts ==
  /\ executed' # executed
  /\ executed' # NoExec
  /\ executed'.outcome # "focus_failed"

\* C24: no commanded action starts while the idle action holds a key down.
C24_NoInterleavedHolds == [][CommandedActionStarts => idle_key = None]_vars

NextClient ==
  \/ Tick
  \/ \E ok \in BOOLEAN, fd \in FocusDelays, cd \in CycleDelays :
       IdleStart(ok, fd, cd)
  \/ \E ok \in BOOLEAN, fd \in FocusDelays, cd \in CycleDelays :
       IdleLoopTop(ok, fd, cd)
  \/ IdleLoopExit
  \/ \E ok \in BOOLEAN, hd \in HoldDelays, cd \in CycleDelays :
       IdleAfterFocus(ok, hd, cd)
  \/ \E bd \in FocusDelays : IdleReleaseSpace(bd)
  \/ \E ok \in BOOLEAN, hd \in HoldDelays, cd \in CycleDelays :
       IdlePressQ(ok, hd, cd)
  \/ \E cd \in CycleDelays : IdleReleaseQ(cd)
  \/ StopIdleMode
  \/ \E m \in Messages : HandleOther(m)
  \/ \E m \in Messages : HandleCooldown(m)
  \/ \E m \in Messages, env \in {"ok", "focus_err", "inject_err"},
        d \in ExecDelays : HandleExecute(m, env, d)
  \/ \E ok \in BOOLEAN : DrainDone(ok)
  \/ Reconnect

SpecClient == InitClient /\ [][NextClient]_vars

\* -------------------------------------- the client and a server that fails
\* The client with no window configured, against a server whose connections
\* drop and whose port refuses.

InitConn == ClientInit(0) /\ ServerInit /\ WireInit /\ LoopInit

NextConn ==
  \/ Tick
  \/ \E ok \in BOOLEAN, fd \in FocusDelays, cd \in CycleDelays :
       IdleStart(ok, fd, cd)
  \/ \E ok \in BOOLEAN, fd \in FocusDelays, cd \in CycleDelays :
       IdleLoopTop(ok, fd, cd)
  \/ \E m \in Messages : HandleOther(m)
  \/ \E m \in Messages : HandleCooldown(m)
  \/ \E m \in Messages, env \in {"ok", "focus_err", "inject_err"},
        d \in ExecDelays : HandleExecute(m, env, d)
  \/ \E ok \in BOOLEAN : DrainDone(ok)
  \/ Reconnect
  \/ \E kind \in ReadFailures : ReadFails(kind)
  \/ ConnectFails
  \/ WaitClosedDone
  \/ RetryWake

SpecConn == InitConn /\ [][NextConn]_vars

\* ------------------------------------------------- send_message on its own
\* send_message called by a caller that keeps what it returns, in each state
\* of the connection the supervisor leaves behind.

\* The responses handle_server_message builds, for the windows and actions
\* of the default configuration and an action it does not hold.
Responses ==
  LET acts == ActionNames \cup {"bogus_action"} IN
  {[status |-> "cooldown", window |-> w, action |-> a, state |-> NoState] :
     w \in Range(WindowKeys), a \in acts}
  \cup {[status |-> st, window |-> w, action |-> a, state |-> StateActive(w)] :
          st \in {"success", "error"}, w \in Range(WindowKeys), a \in acts}

\* The client never connected; connected on its first connection; not
\* connected, its first connection lost and closed after a refused
\* reconnect.
InitSend ==
  /\ AppInit(0)
  /\ ServerInit
  /\ WireInit
  /\ LoopInit
  /\ \/ LinkInit
     \/ /\ connected = TRUE
        /\ writer = 1
        /\ opened = 1
        /\ transport = "up"
        /\ closes = [k \in 1..MaxOpens |-> 0]
        /\ dead = {}
     \/ /\ connected = FALSE
        /\ writer = 1
        /\ opened = 1
        /\ transport = "closed"
        /\ closes = [k \in 1..MaxOpens |-> IF k = 1 THEN 1 ELSE 0]
        /\ dead = {1}

\* A caller calls send_message(msg): it returns at once, or awaits the flush.
SendCall(msg) ==
  /\ rpc # "draining"
  /\ send_result = None
  /\ send_message(msg)
  /\ UNCHANGED <<now, smVars, windows, idleVars, connected, inbound, executed,
                 histVars, linkVars, retryVars>>
  /\ UNCHANGED <<serverVars, wireVars, driverVars>>

\* The flush ends and send_message returns True, or False after a raise.
SendReturns(ok) ==
  /\ rpc = "draining"
  /\ rpc' = "returned"
  /\ reply' = NoReply
  /\ drain(ok)
  /\ send_result' = IF ok THEN "True" ELSE "False"
  /\ UNCHANGED <<now, smVars, windows, idleVars, inbound, executed, histVars,
                 retryVars>>
  /\ UNCHANGED <<serverVars, wireVars, driverVars>>

\* The caller has taken the value returned.
SendResultTaken ==
  /\ rpc # "draining"
  /\ send_result # None
  /\ send_result' = None
  /\ UNCHANGED <<now, smVars, windows, idleVars, routerVars, histVars,
                 linkVars, retryVars, cflush>>
  /\ UNCHANGED <<serverVars, wireVars, driverVars>>

NextSend ==
  \/ \E msg \in Responses : SendCall(msg)
  \/ \E ok \in BOOLEAN : SendReturns(ok)
  \/ SendResultTaken

SpecSend == InitSend /\ [][NextSend]_vars

\* ------------------------------------------------------ WowSyncServer
\* The tasks of the server process: one handle_client per connection and
\* command_handler, which broadcasts.  The transport of a connection is "up"
\* until the event loop has seen the connection lost ("down"): from then on
\* its reads and its drain() raise.

\* list.remove(x): the first occurrence goes.
RECURSIVE ListRemove(_, _)
ListRemove(s, x) ==
  IF s = <<>> THEN <<>>
  ELSE IF Head(s) = x THEN Tail(s)
  ELSE <<Head(s)>> \o ListRemove(Tail(s), x)

\* for client in disconnected_clients: if client in self.clients: remove it.
RECURSIVE RemoveDisconnected(_, _)
RemoveDisconnected(cl, dc) ==
  IF dc = <<>> THEN cl
  ELSE RemoveDisconnected(
         IF Head(dc) \in Range(cl) THEN ListRemove(cl, Head(dc)) ELSE cl,
         Tail(dc))

\* handle_client up to its first read: the connection is registered.
Accept(c) ==
  /\ link[c] = "unconnected"
  /\ \A d \in Conns : d < c => link[d] # "unconnected"
  /\ link' = [link EXCEPT ![c] = "up"]
  /\ hpc' = [hpc EXCEPT ![c] = "reading"]
  /\ clients' = Append(clients, c)
  /\ UNCHANGED <<clientVars, wireVars, driverVars, wclosed, removed_by, broadcastVars,
                 bhistVars>>

\* The peer closes or the transport fails: the connection is lost.
ConnLost(c) ==
  /\ link[c] = "up"
  /\ link' = [link EXCEPT ![c] = "down"]
  /\ UNCHANGED <<clientVars, wireVars, driverVars, clients, hpc, wclosed, removed_by,
                 broadcastVars, bhistVars>>

\* The finally block without its membership test: list.remove raises
\* ValueError for a connection that is not registered, and the writer is
\* not closed.
ReaderTeardownUnguarded(c) ==
  /\ hpc[c] = "reading"
  /\ link[c] = "down"
  /\ IF c \in Range(clients)
       THEN /\ clients' = ListRemove(clients, c)
            /\ removed_by' = [removed_by EXCEPT ![c] = "reader"]
            /\ wclosed' = [wclosed EXCEPT ![c] = @ + 1]
            /\ hpc' = [hpc EXCEPT ![c] = "closed"]
       ELSE /\ hpc' = [hpc EXCEPT ![c] = "raised"]
            /\ UNCHANGED <<clients, removed_by, wclosed>>
  /\ UNCHANGED <<clientVars, wireVars, driverVars, link, broadcastVars, bhistVars>>

\* handle_client's read raises (EOF, a short read, a lost connection); its
\* finally block removes the connection, if it is still registered, and
\* closes the writer.
ReaderTeardown(c) ==
  /\ hpc[c] = "reading"
  /\ link[c] = "down"
  /\ clients' = IF c \in Range(clients) THEN ListRemove(clients, c) ELSE clients
  /\ removed_by' = IF c \in Range(clients)
                     THEN [removed_by EXCEPT ![c] = "reader"] ELSE removed_by
  /\ wclosed' = [wclosed EXCEPT ![c] = @ + 1]
  /\ hpc' = [hpc EXCEPT ![c] = "closed"]
  /\ UNCHANGED <<clientVars, wireVars, driverVars, link, broadcastVars, bhistVars>>

\* send_to_all_clients called while another call of it is in its loop.
BroadcastStartOverlapping ==
  /\ broadcasts < MaxBroadcasts
  /\ broadcasts' = broadcasts + 1
  /\ bstart' = Range(clients)
  /\ IF clients = <<>>
       THEN /\ bwritten' = [c \in Conns |-> 0]
            /\ UNCHANGED <<bpc, bidx, bcur, disconnected_clients, sflush>>
       ELSE /\ disconnected_clients' = <<>>
            /\ bidx' = 1
            /\ bcur' = clients[1]
            /\ bpc' = "drain"
            /\ bwritten' = [c \in Conns |-> IF c = clients[1] THEN 1 ELSE 0]
            /\ sflush' = [sflush EXCEPT ![clients[1]] = @ + 1]
  /\ UNCHANGED <<clientVars, wireVars, driverVars, registryVars, write_failed>>

\* send_to_all_clients from its call to the first drain().  command_handler,
\* its only caller, awaits each call before the next.
BroadcastStart ==
  /\ bpc = "idle"
  /\ broadcasts < MaxBroadcasts
  /\ broadcasts' = broadcasts + 1
  /\ bstart' = Range(clients)
  /\ IF clients = <<>>
       THEN /\ bwritten' = [c \in Conns |-> 0]
            /\ UNCHANGED <<bpc, bidx, bcur, disconnected_clients, sflush>>
       ELSE /\ disconnected_clients' = <<>>
            /\ bidx' = 1
            /\ bcur' = clients[1]
            /\ bpc' = "drain"
            /\ bwritten' = [c \in Conns |-> IF c = clients[1] THEN 1 ELSE 0]
            /\ sflush' = [sflush EXCEPT ![clients[1]] = @ + 1]
  /\ UNCHANGED <<clientVars, wireVars, driverVars, registryVars, write_failed>>

\* drain() returns, or raises on a lost connection, which is then collected;
\* the loop goes on to the next connection, or ends and the collected
\* connections are removed.
BroadcastResume ==
  /\ bpc = "drain"
  /\ LET ok == link[bcur] = "up"
         dc == IF ok THEN disconnected_clients
                     ELSE Append(disconnected_clients, bcur)
     IN
     /\ write_failed' = IF ok THEN write_failed ELSE write_failed \cup {bcur}
     /\ disconnected_clients' = dc
     /\ IF bidx < Len(clients)
          THEN /\ bidx' = bidx + 1
               /\ bcur' = clients[bidx + 1]
               /\ bwritten' = [bwritten EXCEPT ![clients[bidx + 1]] = @ + 1]
               /\ sflush' = [c \in Conns |->
                              sflush[c] - (IF c = bcur THEN 1 ELSE 0)
                                        + (IF c = clients[bidx + 1] THEN 1 ELSE 0)]
               /\ UNCHANGED <<bpc, clients, removed_by>>
          ELSE /\ clients' = RemoveDisconnected(clients, dc)
               /\ removed_by' = [c \in Conns |->
                                  IF c \in Range(dc) /\ c \in Range(clients)
                                    THEN "broadcast" ELSE removed_by[c]]
               /\ bpc' = "idle"
               /\ sflush' = [sflush EXCEPT ![bcur] = @ - 1]
               /\ UNCHANGED <<bidx, bcur, bwritten>>
  /\ UNCHANGED <<clientVars, wireVars, driverVars, link, hpc, wclosed, broadcasts, bstart>>

\* C10: when one connection has failed its write in a broadcast and no other
\* connection is lost, then at the end of that broadcast and of every later
\* one the failed connection is not registered, and every other connection
\* registered at the broadcast's start is still registered and was written
\* the frame by it.
C10_BroadcastResilience ==
  \A f \in Conns :
    (/\ bpc = "idle"
     /\ write_failed = {f}
     /\ {c \in Conns : link[c] = "down"} = {f})
    => /\ f \notin Range(clients)
       /\ \A c \in bstart \ {f} : c \in Range(clients) /\ bwritten[c] = 1

\* C11: while send_to_all_clients is inside its for loop (suspended in a
\* drain() before the step and after it), no step changes self.clients.
C11_NoMutationMidIteration ==
  [][(bpc = "drain" /\ bpc' = "drain") => clients' = clients]_vars

\* C23: when a broadcast has ended, every connection that was registered at
\* its start and is still live has been written the frame once by it; and
\* no broadcast writes its frame twice to a connection.
C23_WrittenOnce ==
  /\ \A c \in Conns : bwritten[c] <= 1
  /\ (bpc = "idle" /\ broadcasts > 0)
       => \A c \in bstart : link[c] = "up" => bwritten[c] = 1

\* The half of C23 that holds: never twice.
NeverWrittenTwice == \A c \in Conns : bwritten[c] <= 1

NextServer ==
  \/ \E c \in Conns : Accept(c)
  \/ \E c \in Conns : ConnLost(c)
  \/ \E c \in Conns : ReaderTeardown(c)
  \/ BroadcastStart
  \/ BroadcastResume

SpecServer == InitServer /\ [][NextServer]_vars

\* ------------------------------------------- the two processes, one at a time
\* The client process and the server process share no variable, so a run of
\* the two is a run of either next to a run of the other: from the common
\* initial state, the client runs and the server does not, or the reverse.

ServerNotStarted ==
  clients = <<>> /\ broadcasts = 0 /\ \A c \in Conns : link[c] = "unconnected"

NextEither ==
  \/ ServerNotStarted /\ NextConn
  \/ ipc = "not_started" /\ NextServer

SpecEither == InitConn /\ [][NextEither]_vars

\* The connection has been registered and is no more.
Removed(c) == link[c] # "unconnected" /\ c \notin Range(clients)

\* A step in which a broadcast writes a frame to connection c.
ServerWrites(c) ==
  /\ bpc' = "drain"
  /\ bcur' = c
  /\ (bpc = "idle" \/ bidx' # bidx)

\* A step in which send_message writes a frame to self.writer.
ClientWrites == cflush' > cflush

\* C17: the client writes no frame to a connection that has suffered a read,
\* decode or write failure; the server's broadcasts write no frame to a
\* connection that has been removed from the registry.
C17_NoWriteToDead ==
  [][/\ ClientWrites => writer \notin dead
     /\ \A c \in Conns : ServerWrites(c) => ~Removed(c)]_vars

\* The client's first connection has failed and a frame is being written to
\* its second.
C17_Witness ==
  /\ dead = {1}
  /\ writer = 2
  /\ rpc = "draining"
  /\ reply # NoReply

\* The server has removed a connection and a broadcast started later is
\* writing to another.
C17_ServerCase ==
  /\ \E c \in Conns : Removed(c) /\ c \notin bstart
  /\ bpc = "drain"

\* C18: at no time are two frame writes to one connection in progress: the
\* client has at most one send_message between its write and the end of its
\* flush, and the server at most one write per connection.
C18_SerializedWrites ==
  /\ cflush <= 1
  /\ \A c \in Conns : sflush[c] <= 1

\* The second broadcast is flushing its frame to a live connection that was
\* registered when it started.
C18_Witness ==
  /\ broadcasts = 2
  /\ bpc = "drain"
  /\ bcur \in bstart
  /\ link[bcur] = "up"
  /\ sflush[bcur] = 1

\* The client is flushing a response on its second connection.
C18_ClientCase == cflush = 1 /\ writer = 2 /\ rpc = "draining"

\* ------------------------------------------------------------ framing
\* One direction of one connection: a peer frames payloads as send_message
\* and send_to_all_clients do, the bytes arrive one at a time, and a read
\* loop decodes them as connect_to_server and handle_client do.

\* The values of a payload's bytes.
ByteVals == {0, 1, 255}

\* The payloads: every byte string of at most MaxPayload bytes.
Payloads == UNION {[1..n -> ByteVals] : n \in 0..MaxPayload}

\* int.from_bytes(length_data, byteorder='little')
from_bytes_little(b) ==
  b[1] + b[2] * 256 + b[3] * 256 * 256 + b[4] * 256 * 256 * 256

\* message_length.to_bytes(4, byteorder='big')
to_bytes(n) ==
  <<(n \div (256 * 256 * 256)) % 256, (n \div (256 * 256)) % 256,
    (n \div 256) % 256, n % 256>>

\* int.from_bytes(length_data, byteorder='big')
from_bytes(b) ==
  b[1] * 256 * 256 * 256 + b[2] * 256 * 256 + b[3] * 256 + b[4]

\* length_bytes + message_bytes
encode(P) == to_bytes(Len(P)) \o P

\* The first n elements of s, and s without them.
Take(s, n) == SubSeq(s, 1, n)
Drop(s, n) == SubSeq(s, n + 1, Len(s))

\* The peer writes the frame of payload P.
FrameWrite(P) ==
  /\ peer = "open"
  /\ Len(sent) < MaxFrames
  /\ wire' = wire \o encode(P)
  /\ sent' = Append(sent, P)
  /\ UNCHANGED <<stream, peer, fpc, message_length, received>>
  /\ UNCHANGED <<clientVars, serverVars, driverVars>>

\* The next byte arrives in the reader's buffer.
ByteArrives ==
  /\ wire # <<>>
  /\ stream' = Append(stream, Head(wire))
  /\ wire' = Tail(wire)
  /\ UNCHANGED <<peer, fpc, message_length, sent, received>>
  /\ UNCHANGED <<clientVars, serverVars, driverVars>>

\* The peer goes away when only k of the bytes it wrote have left it.
PeerCloses(k) ==
  /\ peer = "open"
  /\ k <= Len(wire)
  /\ wire' = Take(wire, k)
  /\ peer' = "closed"
  /\ UNCHANGED <<stream, fpc, message_length, sent, received>>
  /\ UNCHANGED <<clientVars, serverVars, driverVars>>

\* All bytes have arrived from a peer that went away: the reader is fed EOF.
FeedEof ==
  /\ peer = "closed"
  /\ wire = <<>>
  /\ peer' = "eof"
  /\ UNCHANGED <<wire, stream, fpc, message_length, sent, received>>
  /\ UNCHANGED <<clientVars, serverVars, driverVars>>

\* readexactly(4) returns: the length is decoded.
ReadLength ==
  /\ fpc = "length"
  /\ Len(stream) >= 4
  /\ message_length' = from_bytes(Take(stream, 4))
  /\ stream' = Drop(stream, 4)
  /\ fpc' = "payload"
  /\ UNCHANGED <<wire, peer, sent, received>>
  /\ UNCHANGED <<clientVars, serverVars, driverVars>>

\* readexactly(message_length) returns: the message is delivered.
ReadPayload ==
  /\ fpc = "payload"
  /\ Len(stream) >= message_length
  /\ received' = Append(received, Take(stream, message_length))
  /\ stream' = Drop(stream, message_length)
  /\ fpc' = "length"
  /\ UNCHANGED <<wire, peer, message_length, sent>>
  /\ UNCHANGED <<clientVars, serverVars, driverVars>>

\* readexactly raises IncompleteReadError: EOF, and fewer bytes buffered
\* than asked for, which it discards.  The read loop ends.
ReadIncomplete ==
  /\ peer = "eof"
  /\ \/ fpc = "length" /\ Len(stream) < 4
     \/ fpc = "payload" /\ Len(stream) < message_length
  /\ stream' = <<>>
  /\ fpc' = "ended"
  /\ UNCHANGED <<wire, peer, message_length, sent, received>>
  /\ UNCHANGED <<clientVars, serverVars, driverVars>>

NextFrame ==
  \/ \E P \in Payloads : FrameWrite(P)
  \/ ByteArrives
  \/ \E k \in 0..(MaxFrames * (4 + MaxPayload)) : PeerCloses(k)
  \/ FeedEof
  \/ ReadLength
  \/ ReadPayload
  \/ ReadIncomplete

SpecFrame == InitServer /\ [][NextFrame]_vars

\* What the read loop will decode from bytes bs: the payload it is in the
\* middle of, then frame after frame.
RECURSIVE decode_stream(_, _, _)
decode_stream(pc, n, bs) ==
  IF pc = "payload"
    THEN IF Len(bs) < n THEN <<>>
         ELSE <<Take(bs, n)>> \o decode_stream("length", 0, Drop(bs, n))
    ELSE IF Len(bs) < 4 THEN <<>>
         ELSE decode_stream("payload", from_bytes(Take(bs, 4)), Drop(bs, 4))

\* C19: the payloads decoded so far, followed by what the read loop decodes
\* from the bytes still under way, are the payloads framed, in their order;
\* so when every byte has been read, each payload framed has been decoded as
\* itself, the empty payload included.
C19_RoundTrip ==
  peer = "open" =>
    /\ received \o decode_stream(fpc, message_length, stream \o wire) = sent
    /\ (wire = <<>> /\ stream = <<>> /\ fpc = "length") => received = sent

\* Two frames, the empty payload and one of the greatest length, have been
\* decoded from one stream.
C19_Witness ==
  /\ Len(sent) = 2
  /\ sent[1] = <<>>
  /\ Len(sent[2]) = 2
  /\ received = sent
  /\ wire = <<>>
  /\ stream = <<>>

\* ------------------------------------- the server's reader and its stream
\* handle_client's loop reads the stream and touches nothing else; its
\* finally block touches the registry and the writer and not the stream.  A
\* run of the read loop on its stream, or a run of the registry in which a
\* lost connection stands for the read that raises.

StreamNotStarted == sent = <<>> /\ peer = "open"

NextReader ==
  \/ ServerNotStarted /\ NextFrame
  \/ StreamNotStarted /\ NextServer

SpecReader == InitServer /\ [][NextReader]_vars

\* s is an initial part of t.
IsPrefix(s, t) == Len(s) <= Len(t) /\ s = Take(t, Len(s))

\* C20: the messages the read loop delivers are whole payloads the peer
\* framed, in order, also when the stream ends inside a frame, and then the
\* loop ends with the partial bytes discarded.  Every step that ends a
\* reader leaves its connection out of the registry and its writer closed,
\* once, whether or not a broadcast had removed the connection before, and
\* changes the registration of no other connection.
C20_ReaderTeardown ==
  [][/\ IsPrefix(received', sent')
     /\ (fpc # "ended" /\ fpc' = "ended")
          => (received' = received /\ stream' = <<>>)
     /\ \A c \in Conns :
          (hpc[c] = "reading" /\ hpc'[c] # "reading")
            => /\ hpc'[c] = "closed"
               /\ c \notin Range(clients')
               /\ wclosed'[c] = 1
               /\ \A d \in Conns \ {c} :
                    (d \in Range(clients')) = (d \in Range(clients))]_vars

\* A reader has ended on a connection that a failed broadcast write had
\* removed before, and another connection is registered.
C20_Witness ==
  \E c \in Conns :
    /\ removed_by[c] = "broadcast"
    /\ hpc[c] = "closed"
    /\ wclosed[c] = 1
    /\ \E d \in Conns \ {c} : d \in Range(clients)

\* The stream ended inside the second frame: the read loop has ended and has
\* delivered the first payload only.
C20_ShortRead ==
  /\ fpc = "ended"
  /\ Len(sent) = 2
  /\ received = <<sent[1]>>
  /\ message_length > 0

\* ------------------------------------- handle_server_message alone

\* The read loop of a connected client handing any message to
\* handle_server_message, with the idle task suspended in its first sleep:
\* messages arrive back to back, the clock moves while execute_action blocks.
NextHandle ==
  \/ \E ok \in BOOLEAN, fd \in FocusDelays, cd \in CycleDelays :
       IdleStart(ok, fd, cd)
  \/ Reconnect
  \/ \E m \in Messages : HandleOtherNoted(m)
  \/ \E m \in Messages : HandleCooldown(m)
  \/ \E m \in Messages, env \in {"ok", "focus_err", "inject_err"},
        d \in ExecDelays : HandleExecute(m, env, d)
  \/ \E ok \in BOOLEAN : DrainDone(ok)

SpecHandle == InitClient /\ [][NextHandle]_vars

\* A message that is no execute command with a non-empty window.
NotACommand(m) == ~m.parses \/ m.command # "execute" \/ m.window \in {None, ""}

\* C26: a message that is no execute command with a non-empty window is
\* never taken as a command, and the handler's step on it changes nothing:
\* not the state, active_window or last_action_time, no action is executed,
\* no response is written, and the client stays connected and reading.
C26_IgnoredChangesNothing ==
  [][/\ (inbound' # inbound /\ inbound' # NoMsg) => ~NotACommand(inbound')
     /\ Len(ignored') > Len(ignored)
          => /\ NotACommand(ignored'[Len(ignored')])
             /\ UNCHANGED <<smVars, executed, reply, cflush, last_set_active>>
             /\ connected' /\ rpc' = "reading"]_vars

\* An unparsable payload and an execute command with an empty window have
\* both been handled, the state is Active and the client reads on.
C26_Witness ==
  /\ \E i, j \in 1..Len(ignored) :
       /\ ignored[i] = BadPayload
       /\ ignored[j].parses /\ ignored[j].command = "execute" /\ ignored[j].window = ""
  /\ ~is_idle
  /\ FrameArrives

\* ------------------------------ IdleManager under any sequence of calls

\* start_idle_mode and stop_idle_mode called in any order on one IdleManager:
\* each start_idle_mode call is a coroutine of its own, run as a task; all of
\* them share is_running, current_window_index and the StateManager. A
\* coroutine is "not_called", "returned" (by the test at its head), "exited"
\* (its while loop has ended), or suspended in one of the loop's awaits. The
\* sleeps end at any time relative to the calls.

\* The positions inside the while loop.
LoopAwaits == {"focus_sleep", "hold_space", "between", "hold_q", "cycle_sleep"}

\* The coroutine of call k is inside its while loop.
Cycling(k) == loops[k] \in LoopAwaits

\* The loops entered so far.
Entered == Cardinality({k \in Calls : loops[k] \notin {"not_called", "returned"}})

\* The next call to be made.
NextCall(k) == loops[k] = "not_called" /\ \A j \in Calls : j < k => loops[j] # "not_called"

\* What a loop action leaves alone.
LoopFrame ==
  /\ UNCHANGED <<now, last_action_time, windows, ipc, sleep_left, window_key,
                 idle_key, routerVars, last_set_active, advances, selected,
                 stop_key>>
  /\ UNCHANGED <<connVars, serverVars, wireVars, ignored>>

\* loops' with coroutine k at position p.
LoopAt(k, p) == loops' = [loops EXCEPT ![k] = p]

\* "Move to next window" and the cycle sleep, for coroutine k.
LoopPassEnds(k) ==
  /\ current_window_index' = NextIndex(current_window_index, Len(windows))
  /\ LoopAt(k, "cycle_sleep")

\* One pass of coroutine k's while loop, from the state check to its first
\* await.
LoopPass(k, mouse_ok) ==
  IF is_idle' /\ Len(get_window_list) > 0
    THEN IF focus_window(windows[(current_window_index % Len(windows)) + 1], mouse_ok)
           THEN LoopAt(k, "focus_sleep") /\ UNCHANGED current_window_index
           ELSE LoopPassEnds(k)
    ELSE LoopAt(k, "cycle_sleep") /\ UNCHANGED current_window_index

\* start_idle_mode called while is_running holds: it returns at once.
StartReturns(k) ==
  /\ NextCall(k)
  /\ is_running
  /\ LoopAt(k, "returned")
  /\ UNCHANGED <<smVars, is_running, current_window_index, active_since, seen>>
  /\ LoopFrame

\* start_idle_mode called while is_running is false: up to its first await.
StartLoops(k, mouse_ok) ==
  /\ NextCall(k)
  /\ ~is_running
  /\ is_running' = TRUE
  /\ set_idle
  /\ active_since' = Never
  /\ LoopPass(k, mouse_ok)
  /\ seen' = [seen EXCEPT ![k] = Entered + 1]
  /\ LoopFrame

\* Coroutine k's cycle sleep is over and is_running holds: its next pass.
LoopTop(k, mouse_ok) ==
  /\ loops[k] = "cycle_sleep"
  /\ is_running
  /\ ReturnToIdleCheck
  /\ LoopPass(k, mouse_ok)
  /\ seen' = [seen EXCEPT ![k] = Entered]
  /\ UNCHANGED is_running
  /\ LoopFrame

\* Coroutine k's cycle sleep is over and is_running is false: its loop ends.
LoopExit(k) ==
  /\ loops[k] = "cycle_sleep"
  /\ ~is_running
  /\ LoopAt(k, "exited")
  /\ UNCHANGED <<smVars, is_running, current_window_index, active_since, seen>>
  /\ LoopFrame

\* Coroutine k's wait after focus is over: "if still idle", space is pressed.
LoopAfterFocus(k, press_ok) ==
  /\ loops[k] = "focus_sleep"
  /\ IF is_idle /\ press_ok
       THEN LoopAt(k, "hold_space") /\ UNCHANGED current_window_index
       ELSE LoopPassEnds(k)
  /\ UNCHANGED <<smVars, is_running, active_since, seen>>
  /\ LoopFrame

\* Coroutine k releases space.
LoopReleaseSpace(k) ==
  /\ loops[k] = "hold_space"
  /\ LoopAt(k, "between")
  /\ UNCHANGED <<smVars, is_running, current_window_index, active_since, seen>>
  /\ LoopFrame

\* Coroutine k presses q.
LoopPressQ(k, press_ok) ==
  /\ loops[k] = "between"
  /\ IF press_ok
       THEN LoopAt(k, "hold_q") /\ UNCHANGED current_window_index
       ELSE LoopPassEnds(k)
  /\ UNCHANGED <<smVars, is_running, active_since, seen>>
  /\ LoopFrame

\* Coroutine k releases q; its pass ends.
LoopReleaseQ(k) ==
  /\ loops[k] = "hold_q"
  /\ LoopPassEnds(k)
  /\ UNCHANGED <<smVars, is_running, active_since, seen>>
  /\ LoopFrame

\* The loops that have passed the test of `while self.is_running` since the
\* last loop was entered.
Cyclers == {k \in Calls : Cycling(k) /\ seen[k] = Entered}

\* C25: at most one idle loop cycles at a time, whatever the sequence of
\* start_idle_mode and stop_idle_mode calls.
C25_OneLoop == Cardinality(Cyclers) <= 1

\* A start_idle_mode call made while a loop runs returns without a loop.
StartWhileRunningReturns ==
  [][\A k \in Calls :
       (NextCall(k) /\ is_running /\ loops'[k] # "not_called") => loops'[k] = "returned"]_vars

NextIdle ==
  \/ \E k \in Calls : StartReturns(k)
  \/ \E k \in Calls, mouse_ok \in BOOLEAN : StartLoops(k, mouse_ok)
  \/ StopIdleMode
  \/ \E k \in Calls, mouse_ok \in BOOLEAN : LoopTop(k, mouse_ok)
  \/ \E k \in Calls : LoopExit(k)
  \/ \E k \in Calls, press_ok \in BOOLEAN : LoopAfterFocus(k, press_ok)
  \/ \E k \in Calls : LoopReleaseSpace(k)
  \/ \E k \in Calls, press_ok \in BOOLEAN : LoopPressQ(k, press_ok)
  \/ \E k \in Calls : LoopReleaseQ(k)

SpecIdle == InitClient /\ [][NextIdle]_vars

\* ---------------------------------------- the state machine on its own
\* Any sequence of set_active_window, set_idle and clock advances.

SMSetActive(w) ==
  /\ set_active_window(w)
  /\ last_set_active' = now
  /\ active_since' = IF is_idle THEN now ELSE active_since
  /\ UNCHANGED <<now, windows, idleVars, routerVars, advances, selected,
                 stop_key>>
  /\ UNCHANGED <<connVars, serverVars, wireVars, driverVars>>

SMSetIdle ==
  /\ set_idle
  /\ active_since' = Never
  /\ UNCHANGED <<now, last_action_time, windows, idleVars, routerVars,
                 last_set_active, advances, selected, stop_key>>
  /\ UNCHANGED <<connVars, serverVars, wireVars, driverVars>>

SMTick ==
  /\ now < MaxTime
  /\ now' = now + 1
  /\ UNCHANGED <<smVars, windows, idleVars, routerVars, histVars>>
  /\ UNCHANGED <<connVars, serverVars, wireVars, driverVars>>

NextSM ==
  \/ SMTick
  \/ \E w \in Range(WindowKeys) : SMSetActive(w)
  \/ SMSetIdle

SpecSM == InitClient /\ [][NextSM]_vars

====
